---- MODULE Spec2Model ----
(***************************************************************************)
(* MiniRead: the lazy single-line text navigation engine                   *)
(* (LineTextWidget, scrolling_text.py).                                    *)
(*                                                                         *)
(* A text is a sequence of one-character strings.  Offsets are 0-based as  *)
(* in the Python source; Slice(s, i, j) is the Python slice s[i:j].        *)
(***************************************************************************)
EXTENDS Integers, Sequences, FiniteSets, TLC

(***************************************************************************)
(* Bounds of the model.                                                    *)
(***************************************************************************)
\* longest file content of the navigation
MaxLen == 3
\* longest file content of the normalisation alone
MaxRawLen == 5
\* longest file content of the line breaking alone
MaxBreakLen == 4
\* largest max_files handed to add_recent_file
MaxRecent == 2
\* offsets handed to setPosition reach this far outside [0, MaxLen]
SeekSlack == 1
ExtraPaths == 1
MaxTicks == 1
MaxSearchLen == 5
ExtraLines == 3

(***************************************************************************)
(* Program constants.                                                      *)
(***************************************************************************)
\* self._max_history
MaxHistory == 100
\* max(10, self.width() - 20): the floor of the available width
MinAvailableWidth == 10
\* self.width() - 20: the horizontal margin
WidthMargin == 20
\* prevLine: sample of the text before the position
PrevSampleSize == 200
\* prevLine: fallback line length when the sample is empty
PrevDefaultLen == 50
\* lastLine: sample of the end of the text
LastSampleSize == 500
CacheMaxSize == 10
CacheTTL == 3600

(***************************************************************************)
(* Characters.                                                             *)
(***************************************************************************)
\* the ASCII members of '。！？!?；;'
SentenceEndMarks == {"!", "?", ";"}
\* the ASCII member of '，、,、'
PauseMarks == {","}
\* the ASCII members of '：:）)】}」』"\'》>'
OtherMarks == {":", ")", "}", "\"", "'", ">"}
\* left_quotes = '""' and right_quotes = '""': the same two characters
LeftQuotes == <<"\"", "\"">>
RightQuotes == <<"\"", "\"">>
\* the ASCII members of '。！？!?，、,；;：:'
QuoteFollowMarks == {"!", "?", ",", ";", ":"}
\* what Python's \s and str.strip() take for whitespace
Whitespace == {" ", "\n", "\r", "\t"}

\* "Z": a full-width glyph, wider than the narrowest available width
NavChars == {"Z", " ", "!"}
RawChars == {"Z", " ", "\n", "\r", "\t"}
\* "ldquo" and "rdquo": the characters U+201C and U+201D
BreakChars == {"Z", "ldquo", "rdquo", "\"", "!"}

\* QFontMetrics.horizontalAdvance of one glyph, in pixels
CharWidth(c) ==
    CASE c \in Whitespace -> 3
      [] c \in {"!", "?", ";", ",", ":", "'", "\"", "ldquo", "rdquo"} -> 5
      [] OTHER -> 12

Min(a, b) == IF a < b THEN a ELSE b
Max(a, b) == IF a > b THEN a ELSE b

\* Python s[i:j] for 0 <= i
Slice(s, i, j) == SubSeq(s, Max(i, 0) + 1, Min(j, Len(s)))
\* Python s[i:]
Tail0(s, i) == SubSeq(s, Max(i, 0) + 1, Len(s))

SeqsUpTo(S, n) == UNION {[1..k -> S] : k \in 0..n}

(***************************************************************************)
(* setText: normalisation.                                                 *)
(***************************************************************************)
\* text.replace('\n', ' ').replace('\r', ' ')
ReplaceNewlines(t) ==
    [i \in 1..Len(t) |-> IF t[i] \in {"\n", "\r"} THEN " " ELSE t[i]]

\* a collapse that joins whitespace two by two, in one pass
RECURSIVE CollapsePairsOnce(_)
CollapsePairsOnce(t) ==
    IF t = <<>> THEN <<>>
    ELSE IF Head(t) \in Whitespace /\ Len(t) >= 2 /\ t[2] \in Whitespace
         THEN <<" ">> \o CollapsePairsOnce(Tail(Tail(t)))
         ELSE <<IF Head(t) \in Whitespace THEN " " ELSE Head(t)>>
              \o CollapsePairsOnce(Tail(t))

\* re.sub(r'\s+', ' ', t): every maximal run of whitespace becomes one
\* space; the last character of a run is the one that becomes the space, the
\* others ("") are dropped
CollapseWhitespace(t) ==
    LET replaced == [i \in 1..Len(t) |->
                        IF t[i] \notin Whitespace THEN t[i]
                        ELSE IF i < Len(t) /\ t[i + 1] \in Whitespace THEN ""
                        ELSE " "]
    IN  SelectSeq(replaced, LAMBDA c : c # "")

\* str.strip()
RECURSIVE LStrip(_)
LStrip(t) ==
    IF t # <<>> /\ Head(t) \in Whitespace THEN LStrip(Tail(t)) ELSE t
RECURSIVE RStrip(_)
RStrip(t) ==
    IF t # <<>> /\ t[Len(t)] \in Whitespace
    THEN RStrip(SubSeq(t, 1, Len(t) - 1)) ELSE t
\* a strip that leaves the whitespace at the end
StripLeading(t) == LStrip(t)
Strip(t) == RStrip(LStrip(t))

\* the buffer setText stores for the raw text
Normalize(text) ==
    IF text # <<>>
    THEN Strip(CollapseWhitespace(ReplaceNewlines(text)))
    ELSE <<>>

(***************************************************************************)
(* Soft break length.                                                      *)
(***************************************************************************)
\* fm.horizontalAdvance(text): the widths of the glyphs, summed by halves
RECURSIVE horizontalAdvance(_)
horizontalAdvance(t) ==
    IF t = <<>> THEN 0
    ELSE IF Len(t) = 1 THEN CharWidth(t[1])
    ELSE LET half == Len(t) \div 2
         IN  horizontalAdvance(SubSeq(t, 1, half))
                 + horizontalAdvance(SubSeq(t, half + 1, Len(t)))

\* str.count(q)
RECURSIVE Count(_, _)
Count(t, q) ==
    IF t = <<>> THEN 0
    ELSE (IF Head(t) = q THEN 1 ELSE 0) + Count(Tail(t), q)

\* sum(text.count(q) for q in quotes)
RECURSIVE QuoteCount(_, _)
QuoteCount(t, quotes) ==
    IF quotes = <<>> THEN 0
    ELSE Count(t, Head(quotes)) + QuoteCount(t, Tail(quotes))

InSeq(c, s) == \E i \in 1..Len(s) : s[i] = c

\* test_width <= available_width * 1.1
Within110(w, aw) == 10 * w <= 11 * aw
\* test_width <= available_width * 1.15
Within115(w, aw) == 100 * w <= 115 * aw

\* the for loop of _handle_quote_break, from index i of remaining_text
RECURSIVE QuoteSearch(_, _, _, _, _)
QuoteSearch(text, max_length, i, search_limit, aw) ==
    IF i >= search_limit THEN max_length
    ELSE IF InSeq(text[max_length + i + 1], RightQuotes)
         THEN LET new_length == max_length + i + 1
                  extended ==
                      IF /\ new_length < Len(text)
                         /\ text[new_length + 1] \in QuoteFollowMarks
                         /\ Within110(horizontalAdvance(Slice(text, 0, new_length + 1)), aw)
                      THEN new_length + 1
                      ELSE new_length
              IN  IF Within115(horizontalAdvance(Slice(text, 0, extended)), aw)
                  THEN extended
                  ELSE QuoteSearch(text, max_length, i + 1, search_limit, aw)
         ELSE QuoteSearch(text, max_length, i + 1, search_limit, aw)

_handle_quote_break(text, max_length, aw) ==
    LET text_before == Slice(text, 0, max_length)
        left_count == QuoteCount(text_before, LeftQuotes)
        right_count == QuoteCount(text_before, RightQuotes)
        search_limit == Min(Len(text) - max_length, max_length \div 2)
    IN  IF left_count > right_count
        THEN QuoteSearch(text, max_length, 0, search_limit, aw)
        ELSE max_length

\* for i in range(len(search_text) - 1, -1, -1): if search_text[i] in marks
RECURSIVE LastIndexIn(_, _, _)
LastIndexIn(search_text, marks, i) ==
    IF i < 0 THEN -1
    ELSE IF search_text[i + 1] \in marks THEN i
         ELSE LastIndexIn(search_text, marks, i - 1)

\* a break search with one loop over all the classes: it breaks after the
\* break-worthy character nearest to max_length, whatever its class
FindNearestBreakPoint(text, max_length, aw) ==
    IF max_length <= 0 \/ max_length >= Len(text) THEN max_length
    ELSE
    IF /\ text[max_length + 1] \in SentenceEndMarks
       /\ Within110(horizontalAdvance(Slice(text, 0, max_length + 1)), aw)
    THEN max_length + 1
    ELSE
    LET quote_result == _handle_quote_break(text, max_length, aw)
        search_start == Max(0, (7 * max_length) \div 10)
        search_text == Slice(text, search_start, max_length + 1)
        i == LastIndexIn(search_text,
                         SentenceEndMarks \cup PauseMarks \cup OtherMarks
                             \cup {" "},
                         Len(search_text) - 1)
    IN  IF quote_result # max_length THEN quote_result
        ELSE IF i >= 0 THEN search_start + i + 1
        ELSE max_length

_find_best_break_point(text, max_length, aw) ==
    IF max_length <= 0 \/ max_length >= Len(text) THEN max_length
    ELSE
    IF /\ text[max_length + 1] \in SentenceEndMarks
       /\ Within110(horizontalAdvance(Slice(text, 0, max_length + 1)), aw)
    THEN max_length + 1
    ELSE
    LET quote_result == _handle_quote_break(text, max_length, aw)
        search_start == Max(0, (7 * max_length) \div 10)
        search_text == Slice(text, search_start, max_length + 1)
        last == Len(search_text) - 1
        i1 == LastIndexIn(search_text, SentenceEndMarks, last)
        i2 == LastIndexIn(search_text, PauseMarks, last)
        i3 == LastIndexIn(search_text, OtherMarks, last)
        i4 == LastIndexIn(search_text, {" "}, last)
    IN  IF quote_result # max_length THEN quote_result
        ELSE IF i1 >= 0 THEN search_start + i1 + 1
        ELSE IF i2 >= 0 THEN search_start + i2 + 1
        ELSE IF i3 >= 0 THEN search_start + i3 + 1
        ELSE IF i4 >= 0 THEN search_start + i4 + 1
        ELSE max_length

\* the binary search of _get_display_line_length
RECURSIVE BinarySearch(_, _, _, _, _)
BinarySearch(text, left, right, result, aw) ==
    IF left > right THEN result
    ELSE LET mid == (left + right) \div 2
         IN  IF horizontalAdvance(Slice(text, 0, mid)) <= aw
             THEN BinarySearch(text, mid + 1, right, mid, aw)
             ELSE BinarySearch(text, left, mid - 1, result, aw)

_get_display_line_length(text, aw) ==
    IF text = <<>> THEN 0
    ELSE LET result == BinarySearch(text, 0, Len(text), 0, aw)
         IN  IF result > 0 THEN _find_best_break_point(text, result, aw)
             ELSE result

\* a display length that stays 0 when not even one glyph fits
DisplayLengthUnforced(text, aw) == _get_display_line_length(text, aw)

\* if display_length == 0: display_length = 1
DisplayLength(text, aw) ==
    LET n == _get_display_line_length(text, aw)
    IN  IF n = 0 THEN 1 ELSE n

\* max(10, self.width() - 20)
AvailableWidth(w) == Max(MinAvailableWidth, w - WidthMargin)

(***************************************************************************)
(* State.                                                                  *)
(***************************************************************************)
VARIABLES
    full_text,          \* self._full_text
    text_length,        \* self._text_length
    current_pos,        \* self._current_pos
    position_history,   \* self._position_history
    last_width,         \* self._last_width
    width,              \* self.width(): the widget's width in pixels
    emitted,            \* the signals the last call emitted, in order, or what
                        \* it drew
    op,                 \* the last call
    pre,                \* the last call's argument, and the position and the
                        \* history at its start
    run,                \* moving nextLine calls made right after setText, or NoRun
    content,            \* the text of the file the host hands to setText
    config,             \* ConfigManager: self.config
    DEFAULT_CONFIG,     \* ConfigManager.DEFAULT_CONFIG, the class attribute
    aliased,            \* the keys under which self.config and DEFAULT_CONFIG
                        \* hold one and the same dict or list object
    config_file,        \* the configuration stored in config.json
    _parse_cache,       \* file_parser._parse_cache: path -> (mtime, content)
    current_time,       \* what time.time() returns, in seconds
    files,              \* the files on disk: path -> (mtime, content)
    parse_calls,        \* the paths the last call handed to parse_file
    returned            \* what the last parse_file_cached call returned

widget_vars == <<full_text, text_length, current_pos, position_history,
                 last_width, width, emitted, run, content>>
config_vars == <<config, DEFAULT_CONFIG, aliased, config_file>>
cache_vars == <<_parse_cache, current_time, files, parse_calls, returned>>
vars == <<full_text, text_length, current_pos, position_history, last_width,
          width, emitted, op, pre, run, content,
          config, DEFAULT_CONFIG, aliased, config_file,
          _parse_cache, current_time, files, parse_calls, returned>>

NoRun == 0 - 1

\* the widths the widget takes: available widths 10 and 20
Widths == {30, 40}
\* the file contents of the navigation
RawTexts == SeqsUpTo(NavChars, MaxLen)
\* the file contents of the normalisation
FileContents == SeqsUpTo(RawChars, MaxRawLen)
\* the file contents of the line breaking
BreakTexts == SeqsUpTo(BreakChars, MaxBreakLen)
\* the file contents of the backward break search: a character of each
\* class of break-worthy characters, and a plain one
SearchChars == {"Z", "!", ",", ":", " "}
SearchTexts == SeqsUpTo(SearchChars, MaxSearchLen)
\* a file of more lines than the history holds: full-width glyphs, one to a
\* line at the widths of the model
LongTexts == {[i \in 1..(MaxHistory + ExtraLines) |-> "Z"]}
\* Normalize, tabulated over the texts of the model
NormalizedOf ==
    [text \in RawTexts \cup FileContents \cup BreakTexts \cup SearchTexts
                \cup LongTexts |->
        Normalize(text)]
SeekInputs == (0 - SeekSlack)..(MaxLen + SeekSlack)
LineInputs == -1..1
\* progress values handed to setProgress, as <<numerator, denominator>>: the
\* quarters from below 0 to above 1, and the values getProgress returns
ProgressInputs ==
    {<<n, 4>> : n \in -1..5}
    \cup {p \in (1..MaxLen) \X (2..MaxLen) : p[1] < p[2]}

\* self.progress_changed.emit(progress); self.line_changed.emit(-1, -1)
_emit_progress(pos, length) ==
    << <<"progress_changed", IF length > 0 THEN pos ELSE 0,
                             IF length > 0 THEN length ELSE 1>>,
       <<"line_changed", -1, -1>> >>

reached_end == <<"reached_end", 0, 0>>
reached_start == <<"reached_start", 0, 0>>

\* self._get_current_line_text()
_get_current_line_text ==
    IF full_text = <<>> THEN <<>>
    ELSE LET pos == IF text_length > 0
                    THEN Max(0, Min(current_pos, text_length - 1))
                    ELSE 0
         IN  Tail0(full_text, pos)

\* a push that never evicts
AddUnbounded(history, pos) ==
    IF history = <<>> \/ history[Len(history)] # pos
    THEN Append(history, pos)
    ELSE history

\* a push that does not look at the last entry
AppendAlways(history, pos) ==
    LET h == Append(history, pos)
    IN  IF Len(h) > MaxHistory THEN Tail(h) ELSE h

_add_to_history(history, pos) ==
    IF history = <<>> \/ history[Len(history)] # pos
    THEN LET h == Append(history, pos)
         IN  IF Len(h) > MaxHistory THEN Tail(h) ELSE h
    ELSE history

(***************************************************************************)
(* ConfigManager (config.py).  The keys modelled are font.size, window.x,  *)
(* recent_files, last_position and reading_history; the last_read time of  *)
(* a reading_history entry is left out.                                    *)
(***************************************************************************)
Files == {"a.txt", "b.txt"}
\* the character indexes the host saves: the start, and a later line
CharIndexes == {0, 2}
\* reading_history[f] of a file without an entry
NoEntry == 0 - 1
ConfigKeys ==
    {"font", "window", "recent_files", "last_position", "reading_history"}
\* the key paths and the values the host hands to set
KeyPaths == {"font.size", "window.x"}
KeyValues == [k \in KeyPaths |-> IF k = "font.size" THEN {16, 20}
                                 ELSE {100, 250}]
MaxFilesInputs == 0..MaxRecent

\* DEFAULT_CONFIG as the class declares it
DeclaredDefault ==
    [font |-> [size |-> 16],
     window |-> [x |-> 100],
     recent_files |-> <<>>,
     last_position |-> [file |-> "", char_index |-> 0],
     reading_history |-> [f \in Files |-> NoEntry]]

\* get(key_path) for the key paths of the model
get(key_path) ==
    CASE key_path = "font.size" -> config.font.size
      [] key_path = "window.x" -> config.window.x
      [] key_path = "recent_files" -> config.recent_files
      [] key_path = "last_position" -> config.last_position
      [] key_path = "reading_history" -> config.reading_history

get_recent_files == config.recent_files

\* get_reading_position(file_path) on the configuration cfg
ReadingPositionIn(cfg, file_path) ==
    IF cfg.reading_history[file_path] # NoEntry
    THEN cfg.reading_history[file_path]
    ELSE IF cfg.last_position.file = file_path
         THEN cfg.last_position.char_index
         ELSE 0

get_reading_position(file_path) == ReadingPositionIn(config, file_path)

\* the write of config[top][leaf] = value, on the dict d
SetIn(d, key_path, value) ==
    IF key_path = "font.size" THEN [d EXCEPT !.font.size = value]
    ELSE [d EXCEPT !.window.x = value]
TopKey(key_path) == IF key_path = "font.size" THEN "font" ELSE "window"

\* list.remove(x): the first x is taken out
RECURSIVE Remove(_, _)
Remove(list, x) ==
    IF list = <<>> THEN <<>>
    ELSE IF Head(list) = x THEN Tail(list)
         ELSE <<Head(list)>> \o Remove(Tail(list), x)

\* x in list
Contains(list, x) == \E i \in 1..Len(list) : list[i] = x

\* _merge_config(default, loaded) on reading_history: only the keys of
\* the default are taken from the loaded dict
MergeHistory(default, loaded) ==
    [f \in Files |-> IF default[f] # NoEntry
                     THEN (IF loaded[f] # NoEntry THEN loaded[f] ELSE default[f])
                     ELSE NoEntry]

\* _merge_config(default, loaded) for a loaded dict that has every key
_merge_config(default, loaded) ==
    [font |-> [size |-> loaded.font.size],
     window |-> [x |-> loaded.window.x],
     recent_files |-> loaded.recent_files,
     last_position |-> [file |-> loaded.last_position.file,
                        char_index |-> loaded.last_position.char_index],
     reading_history |-> MergeHistory(default.reading_history,
                                      loaded.reading_history)]

\* the manager after __init__ in a directory without config.json: load()
\* takes DEFAULT_CONFIG.copy() and save() writes it
ConfigConstructed ==
    /\ DEFAULT_CONFIG = DeclaredDefault
    /\ config = DeclaredDefault
    /\ aliased = ConfigKeys
    /\ config_file = DeclaredDefault

(***************************************************************************)
(* file_parser: the parse cache.  A path is a directory and a file name;  *)
(* time is counted in seconds.                                             *)
(***************************************************************************)
Paths == {<<"books", n>> : n \in 0..(CacheMaxSize + ExtraPaths)}
\* the one path under which there is no file
MissingPath == <<"books", 0>>
\* the file the reader's other programs write to while the reader runs
ModifiedPath == <<"books", 1>>
HalfTTL == CacheTTL \div 2
MaxTime == HalfTTL + MaxTicks * CacheTTL

\* os.path.basename(file_path)
basename(file_path) == file_path[2]

\* os.path.getmtime(file_path), for a file that is there
getmtime(file_path) == files[file_path][1]

\* parse_file(file_path), for a file that is there: (file name, content)
parse_file(file_path) == <<basename(file_path), files[file_path][2]>>

\* {k: v for k, v in _parse_cache.items() if current_time - v[0] < 3600}
\* v[0] is the modification time stored with the content
Purged(cache, now) ==
    [k \in {p \in DOMAIN cache : now - cache[p][1] < CacheTTL} |-> cache[k]]

\* min(_parse_cache.keys(), key=lambda k: _parse_cache[k][0])
oldest_key(cache) ==
    CHOOSE k \in DOMAIN cache : \A o \in DOMAIN cache : cache[k][1] <= cache[o][1]

\* del cache[key]
Deleted(cache, key) == [k \in DOMAIN cache \ {key} |-> cache[k]]

\* if len(_parse_cache) >= _cache_max_size: del the oldest;
\* _parse_cache[file_path] = (mtime, content)
Stored(cache, file_path, entry) ==
    LET room == IF Cardinality(DOMAIN cache) >= CacheMaxSize
                THEN Deleted(cache, oldest_key(cache))
                ELSE cache
    IN  [k \in DOMAIN room \cup {file_path} |->
            IF k = file_path THEN entry ELSE room[k]]

\* if file_path in _parse_cache: ... if cached_mtime == mtime
CacheHit(cache, file_path) ==
    /\ file_path \in DOMAIN cache
    /\ cache[file_path][1] = getmtime(file_path)

\* the module after import, the clock half an hour after the files were
\* written one second apart
CacheConstructed ==
    /\ _parse_cache = <<>>
    /\ current_time = HalfTTL
    /\ files = [p \in Paths \ {MissingPath} |-> <<p[2], "old">>]
    /\ parse_calls = <<>>
    /\ returned = <<>>

Called(name, a) ==
    /\ op' = name
    /\ pre' = [arg |-> a, pos |-> current_pos, hist |-> position_history]

\* the widget after __init__, the host holding one of the file contents
Constructed(contents) ==
    /\ full_text = <<>>
    /\ text_length = 0
    /\ current_pos = 0
    /\ position_history = <<>>
    /\ last_width = 0
    /\ width \in Widths
    /\ emitted = <<>>
    /\ op = "__init__"
    /\ pre = [arg |-> <<>>, pos |-> 0, hist |-> <<>>]
    /\ run = NoRun
    /\ content \in contents
    /\ ConfigConstructed
    /\ CacheConstructed

Init == Constructed(RawTexts)

\* a setText that keeps the position of the text it replaces
setTextKeepsPosition(text) ==
    /\ full_text' = NormalizedOf[text]
    /\ text_length' = Len(full_text')
    /\ position_history' = <<>>
    /\ last_width' = 0
    /\ emitted' = _emit_progress(current_pos, text_length')
    /\ Called("setText", text)
    /\ run' = 0
    /\ UNCHANGED <<current_pos, width, content>>
    /\ UNCHANGED <<config_vars, cache_vars>>

setText(text) ==
    /\ full_text' = NormalizedOf[text]
    /\ text_length' = Len(full_text')
    /\ current_pos' = 0
    /\ position_history' = <<>>
    /\ last_width' = 0
    /\ emitted' = _emit_progress(0, text_length')
    /\ Called("setText", text)
    /\ run' = 0
    /\ UNCHANGED <<width, content>>
    /\ UNCHANGED <<config_vars, cache_vars>>

\* an end test that lets the position reach the length
PastEndOffByOne(new_pos) == new_pos > text_length

\* if new_pos >= self._text_length
PastEnd(new_pos) == new_pos >= text_length

\* what nextLine emits when it returns before computing anything
NextLineEarly == IF full_text = <<>> THEN <<>> ELSE <<reached_end>>

\* an early return that signals nothing
PrevLineEarlySilent == <<>>

\* an early return that signals the start on an empty buffer too
PrevLineEarlySignals == <<reached_start>>

\* what prevLine emits when it returns before moving
PrevLineEarly == IF full_text = <<>> THEN <<>> ELSE <<reached_start>>

nextLine ==
    /\ UNCHANGED content
    /\ UNCHANGED <<config_vars, cache_vars>>
    /\ Called("nextLine", <<>>)
    /\ IF full_text = <<>>
       THEN /\ emitted' = NextLineEarly
            /\ run' = NoRun
            /\ UNCHANGED <<full_text, text_length, current_pos,
                           position_history, last_width, width>>
       ELSE
       LET current_text == _get_current_line_text
           available_width == AvailableWidth(width)
           history0 == IF width # last_width THEN <<>> ELSE position_history
           display_length == DisplayLength(current_text, available_width)
           new_pos == current_pos + display_length
       IN  IF current_text = <<>>
           THEN /\ emitted' = <<reached_end>>
                /\ run' = NoRun
                /\ UNCHANGED <<full_text, text_length, current_pos,
                               position_history, last_width, width>>
           ELSE /\ last_width' = width
                /\ position_history' = _add_to_history(history0, current_pos)
                /\ IF PastEnd(new_pos)
                   THEN /\ emitted' = <<reached_end>>
                        /\ current_pos' = current_pos
                        /\ run' = NoRun
                   ELSE /\ current_pos' = new_pos
                        /\ emitted' = _emit_progress(new_pos, text_length)
                        /\ run' = IF run = NoRun THEN NoRun ELSE run + 1
                /\ UNCHANGED <<full_text, text_length, width>>

\* an estimate that stays 0 when not even one glyph of the sample fits
PrevAvgDisplayLenUnforced(pos, aw) ==
    LET sample_text == Slice(full_text, Max(0, pos - PrevSampleSize), pos)
    IN  IF sample_text # <<>>
        THEN _get_display_line_length(sample_text, aw)
        ELSE PrevDefaultLen

\* self._full_text[max(0, pos - 200):pos] and the estimate made of it
PrevAvgDisplayLen(pos, aw) ==
    LET sample_text == Slice(full_text, Max(0, pos - PrevSampleSize), pos)
    IN  IF sample_text # <<>>
        THEN DisplayLength(sample_text, aw)
        ELSE PrevDefaultLen

\* the while loop of prevLine; the value is prev_display_start at its exit
RECURSIVE PrevWalk(_, _, _, _)
PrevWalk(pos, prev_display_start, target, aw) ==
    IF pos < target
    THEN LET next_pos == pos + DisplayLength(Tail0(full_text, pos), aw)
         IN  IF next_pos >= target
             THEN prev_display_start
             ELSE PrevWalk(next_pos, pos, target, aw)
    ELSE prev_display_start

\* the position the estimation path of prevLine lands on
PrevLineSlow(pos, aw) ==
    LET avg_display_len == PrevAvgDisplayLen(pos, aw)
        search_start == Max(0, pos - avg_display_len * 3)
    IN  PrevWalk(search_start, search_start, pos, aw)

prevLine ==
    /\ UNCHANGED content
    /\ UNCHANGED <<config_vars, cache_vars>>
    /\ Called("prevLine", <<>>)
    /\ run' = NoRun
    /\ IF full_text = <<>>
       THEN /\ emitted' = PrevLineEarly
            /\ UNCHANGED <<full_text, text_length, current_pos,
                           position_history, last_width, width>>
       ELSE IF current_pos = 0
       THEN /\ emitted' = PrevLineEarly
            /\ UNCHANGED <<full_text, text_length, current_pos,
                           position_history, last_width, width>>
       ELSE IF Len(position_history) >= 2
       THEN LET popped == SubSeq(position_history, 1, Len(position_history) - 1)
                prev_pos == popped[Len(popped)]
            IN  /\ position_history' = popped
                /\ current_pos' = prev_pos
                /\ emitted' = _emit_progress(prev_pos, text_length)
                /\ UNCHANGED <<full_text, text_length, last_width, width>>
       ELSE LET prev_display_start ==
                    PrevLineSlow(current_pos, AvailableWidth(width))
            IN  /\ current_pos' = prev_display_start
                /\ position_history' = <<>>
                /\ emitted' = _emit_progress(prev_display_start, text_length)
                /\ UNCHANGED <<full_text, text_length, last_width, width>>

\* a firstLine that resets at position 0 too, as setPosition(0) does
firstLineAlways ==
    /\ UNCHANGED content
    /\ UNCHANGED <<config_vars, cache_vars>>
    /\ Called("firstLine", <<>>)
    /\ run' = NoRun
    /\ current_pos' = 0
    /\ position_history' = <<>>
    /\ emitted' = _emit_progress(0, text_length)
    /\ UNCHANGED <<full_text, text_length, last_width, width>>

firstLine ==
    /\ UNCHANGED content
    /\ UNCHANGED <<config_vars, cache_vars>>
    /\ Called("firstLine", <<>>)
    /\ run' = NoRun
    /\ IF current_pos # 0
       THEN /\ current_pos' = 0
            /\ position_history' = <<>>
            /\ emitted' = _emit_progress(0, text_length)
       ELSE /\ emitted' = <<>>
            /\ UNCHANGED <<current_pos, position_history>>
    /\ UNCHANGED <<full_text, text_length, last_width, width>>

\* a walk that, like the one of prevLine, leaves the loop without recording
\* the start it has reached
RECURSIVE LastWalkKeepsPrevious(_, _, _)
LastWalkKeepsPrevious(pos, last_display_start, aw) ==
    IF pos < text_length
    THEN LET next_pos == pos + DisplayLength(Tail0(full_text, pos), aw)
         IN  IF next_pos >= text_length
             THEN last_display_start
             ELSE LastWalkKeepsPrevious(next_pos, pos, aw)
    ELSE last_display_start

\* the while loop of lastLine; the value is last_display_start at its exit
RECURSIVE LastWalk(_, _, _)
LastWalk(pos, last_display_start, aw) ==
    IF pos < text_length
    THEN LET next_pos == pos + DisplayLength(Tail0(full_text, pos), aw)
         IN  IF next_pos >= text_length
             THEN pos
             ELSE LastWalk(next_pos, pos, aw)
    ELSE last_display_start

\* the position lastLine lands on
LastLineStart(aw) ==
    LET sample_size == Min(LastSampleSize, text_length)
        sample_text == Tail0(full_text, text_length - sample_size)
        avg_display_len == DisplayLength(sample_text, aw)
        estimated_last_pos == Max(0, text_length - avg_display_len * 2)
    IN  LastWalk(estimated_last_pos, estimated_last_pos, aw)

lastLine ==
    /\ UNCHANGED content
    /\ UNCHANGED <<config_vars, cache_vars>>
    /\ Called("lastLine", <<>>)
    /\ run' = NoRun
    /\ IF full_text = <<>>
       THEN /\ emitted' = <<>>
            /\ UNCHANGED <<current_pos, position_history>>
       ELSE LET last_display_start == LastLineStart(AvailableWidth(width))
            IN  /\ current_pos' = last_display_start
                /\ position_history' = <<>>
                /\ emitted' = _emit_progress(last_display_start, text_length)
    /\ UNCHANGED <<full_text, text_length, last_width, width>>

\* str.find(c, start): the 0-based index of the first c at or after start
RECURSIVE Find(_, _, _)
Find(t, c, start) ==
    IF start >= Len(t) THEN -1
    ELSE IF t[start + 1] = c THEN start
         ELSE Find(t, c, start + 1)

\* the for loop of gotoLine, with n iterations left
RECURSIVE GotoWalk(_, _)
GotoWalk(pos, n) ==
    IF n <= 0 THEN pos
    ELSE LET next_newline == Find(full_text, "\n", pos)
         IN  IF next_newline = -1 THEN pos
             ELSE GotoWalk(next_newline + 1, n - 1)

gotoLine(line_num) ==
    /\ UNCHANGED content
    /\ UNCHANGED <<config_vars, cache_vars>>
    /\ Called("gotoLine", line_num)
    /\ run' = NoRun
    /\ IF full_text = <<>> \/ line_num < 0
       THEN /\ emitted' = <<>>
            /\ UNCHANGED <<current_pos, position_history>>
       ELSE LET pos == GotoWalk(0, line_num)
            IN  /\ current_pos' = pos
                /\ position_history' = <<>>
                /\ emitted' = _emit_progress(pos, text_length)
    /\ UNCHANGED <<full_text, text_length, last_width, width>>

\* a clamp that lets the position reach the length
ClampIndexOffByOne(index) ==
    IF text_length > 0 THEN Max(0, Min(index, text_length)) ELSE 0

\* a clamp without its lower end
ClampIndexUpperOnly(index) ==
    IF text_length > 0 THEN Min(index, text_length - 1) ELSE 0

\* max(0, min(index, self._text_length - 1)) if self._text_length > 0 else 0
ClampIndex(index) ==
    IF text_length > 0 THEN Max(0, Min(index, text_length - 1)) ELSE 0

\* the body of setPosition; setProgress calls it too
SetPositionBody(index) ==
    IF full_text = <<>>
    THEN /\ current_pos' = 0
         /\ emitted' = <<>>
         /\ UNCHANGED position_history
    ELSE LET pos == ClampIndex(index)
         IN  /\ current_pos' = pos
             /\ position_history' = <<>>
             /\ emitted' = _emit_progress(pos, text_length)

setPosition(index) ==
    /\ UNCHANGED content
    /\ UNCHANGED <<config_vars, cache_vars>>
    /\ Called("setPosition", index)
    /\ run' = NoRun
    /\ SetPositionBody(index)
    /\ UNCHANGED <<full_text, text_length, last_width, width>>

\* a target rounded up
TargetPosCeil(length, p) == (length * p[1] + p[2] - 1) \div p[2]

\* int(self._text_length * progress) for progress = p[1] / p[2] in [0, 1]
TargetPos(length, p) == (length * p[1]) \div p[2]

\* max(0.0, min(1.0, progress))
ClampProgress(p) ==
    IF p[1] < 0 THEN <<0, 1>>
    ELSE IF p[1] > p[2] THEN <<1, 1>>
    ELSE p

setProgress(progress) ==
    /\ UNCHANGED content
    /\ UNCHANGED <<config_vars, cache_vars>>
    /\ Called("setProgress", progress)
    /\ run' = NoRun
    /\ IF full_text = <<>>
       THEN /\ current_pos' = 0
            /\ emitted' = <<>>
            /\ UNCHANGED position_history
       ELSE SetPositionBody(TargetPos(text_length, ClampProgress(progress)))
    /\ UNCHANGED <<full_text, text_length, last_width, width>>

\* a progress that counts the line at the position as read
getProgressInclusive ==
    IF text_length = 0 THEN <<0, 1>> ELSE <<current_pos + 1, text_length>>

\* getProgress(), as <<numerator, denominator>>
getProgress ==
    IF text_length = 0 THEN <<0, 1>> ELSE <<current_pos, text_length>>

\* a resize event that keeps the history
resizeEventKeepsHistory(w) ==
    /\ UNCHANGED content
    /\ UNCHANGED <<config_vars, cache_vars>>
    /\ Called("resizeEvent", <<>>)
    /\ run' = NoRun
    /\ width' = w
    /\ last_width' = 0
    /\ emitted' = <<>>
    /\ UNCHANGED <<full_text, text_length, current_pos, position_history>>

\* the widget is resized to width w and Qt delivers the resize event
resizeEvent(w) ==
    /\ UNCHANGED content
    /\ UNCHANGED <<config_vars, cache_vars>>
    /\ Called("resizeEvent", <<>>)
    /\ run' = NoRun
    /\ width' = w
    /\ position_history' = <<>>
    /\ last_width' = 0
    /\ emitted' = <<>>
    /\ UNCHANGED <<full_text, text_length, current_pos>>

\* the geometry of the hidden widget changes: width() is w at once, and Qt
\* delivers the resize event only when the widget is shown
DeferredResize(w) ==
    /\ UNCHANGED content
    /\ UNCHANGED <<config_vars, cache_vars>>
    /\ Called("hidden", <<>>)
    /\ run' = NoRun
    /\ width' = w
    /\ emitted' = <<>>
    /\ UNCHANGED <<full_text, text_length, current_pos, position_history,
                   last_width>>

Next ==
    \/ setText(content)
    \/ nextLine
    \/ prevLine
    \/ firstLine
    \/ lastLine
    \/ \E line_num \in LineInputs : gotoLine(line_num)
    \/ \E index \in SeekInputs : setPosition(index)
    \/ \E progress \in ProgressInputs : setProgress(progress)
    \/ \E w \in Widths : resizeEvent(w)
    \/ \E w \in Widths : DeferredResize(w)

Spec == Init /\ [][Next]_vars

(***************************************************************************)
(* The normalisation of setText on its own: a raw text with line           *)
(* terminators and tabs is handed to the freshly constructed widget.       *)
(***************************************************************************)
InitNorm == Constructed(FileContents)

\* setText(content), once
LoadContent ==
    /\ op = "__init__"
    /\ setText(content)

NextNorm == LoadContent

SpecNorm == InitNorm /\ [][NextNorm]_vars

(***************************************************************************)
(* The line breaking on its own: the widget is constructed, handed a text  *)
(* and painted.                                                            *)
(***************************************************************************)
\* "无内容 - 右键打开菜单加载文件": what paintEvent draws of an empty buffer
NoContentText ==
    <<"Z", "Z", "Z", " ", "-", " ",
      "Z", "Z", "Z", "Z", "Z", "Z", "Z", "Z", "Z", "Z", "Z">>

\* a painter that draws nothing when not even one glyph fits
DisplayTextUnforced(text, display_length) == Slice(text, 0, display_length)

\* text[:display_length] if display_length > 0 else text[:1]
DisplayText(text, display_length) ==
    IF display_length > 0 THEN Slice(text, 0, display_length)
    ELSE Slice(text, 0, 1)

\* a painter that always starts at the beginning of the buffer
PaintedFromStart ==
    IF full_text = <<>> THEN NoContentText ELSE full_text

\* the text paintEvent breaks: the placeholder or the tail at the position
PaintedText ==
    IF full_text = <<>> THEN NoContentText ELSE _get_current_line_text

paintEvent ==
    /\ Called("paintEvent", <<>>)
    /\ LET text == PaintedText
           available_width == AvailableWidth(width)
           display_length == _get_display_line_length(text, available_width)
       IN  emitted' = << <<"drawText", display_length,
                           DisplayText(text, display_length)>> >>
    /\ UNCHANGED <<full_text, text_length, current_pos, position_history,
                   last_width, width, run, content>>
    /\ UNCHANGED <<config_vars, cache_vars>>

InitBreak == Constructed(BreakTexts)

NextBreak ==
    \/ LoadContent
    \/ paintEvent

SpecBreak == InitBreak /\ [][NextBreak]_vars

(***************************************************************************)
(* Reading a long file: the text is loaded and read line by line, forward  *)
(* and backward.                                                            *)
(***************************************************************************)
InitLong == Constructed(LongTexts)

NextLong ==
    \/ LoadContent
    \/ nextLine
    \/ prevLine

SpecLong == InitLong /\ [][NextLong]_vars

(***************************************************************************)
(* Reading a file from its start: the text is loaded, painted and advanced *)
(* line by line.                                                            *)
(***************************************************************************)
NextRead ==
    \/ LoadContent
    \/ paintEvent
    \/ nextLine

SpecRead == InitBreak /\ [][NextRead]_vars

\* the same, over texts of punctuation marks and spaces
InitSearch == Constructed(SearchTexts)

SpecSearch == InitSearch /\ [][NextBreak]_vars

(***************************************************************************)
(* ConfigManager on its own: the manager the host gets from get_config()   *)
(* in a directory without config.json, and the calls made on it.           *)
(***************************************************************************)
\* set(key_path, value, auto_save): the dict under the first key is
\* written in place
set(key_path, value, auto_save) ==
    /\ Called("set", <<key_path, value>>)
    /\ config' = SetIn(config, key_path, value)
    /\ DEFAULT_CONFIG' = IF TopKey(key_path) \in aliased
                         THEN SetIn(DEFAULT_CONFIG, key_path, value)
                         ELSE DEFAULT_CONFIG
    /\ config_file' = IF auto_save THEN config' ELSE config_file
    /\ UNCHANGED aliased
    /\ UNCHANGED <<widget_vars, cache_vars>>

\* save()
save ==
    /\ Called("save", <<>>)
    /\ config_file' = config
    /\ UNCHANGED <<config, DEFAULT_CONFIG, aliased>>
    /\ UNCHANGED <<widget_vars, cache_vars>>

\* an insert that leaves an earlier entry of the path in the list
InsertedOnly(recent, file_path) == <<file_path>> \o recent

\* if file_path in recent: recent.remove(file_path); recent.insert(0, ...)
Reinserted(recent, file_path) ==
    <<file_path>> \o (IF Contains(recent, file_path)
                      THEN Remove(recent, file_path)
                      ELSE recent)

\* the list is changed in place and config["recent_files"] is bound to the
\* new list recent[:max_files]
add_recent_file(file_path, max_files) ==
    /\ Called("add_recent_file", <<file_path, max_files>>)
    /\ LET recent == Reinserted(config.recent_files, file_path)
       IN  /\ config' = [config EXCEPT
                            !.recent_files = Slice(recent, 0, max_files)]
           /\ DEFAULT_CONFIG' =
                  IF "recent_files" \in aliased
                  THEN [DEFAULT_CONFIG EXCEPT !.recent_files = recent]
                  ELSE DEFAULT_CONFIG
    /\ aliased' = aliased \ {"recent_files"}
    /\ config_file' = config'
    /\ UNCHANGED <<widget_vars, cache_vars>>

\* a write that keeps the entry of the one file only
HistoryOfOne(history, file_path, char_index) ==
    [f \in Files |-> IF f = file_path THEN char_index ELSE NoEntry]

\* history[file_path] = {"char_index": char_index, ...}
HistoryWith(history, file_path, char_index) ==
    [history EXCEPT ![file_path] = char_index]

\* config["last_position"] is bound to a new dict, and the reading_history
\* dict is written in place
save_reading_position(file_path, char_index) ==
    /\ Called("save_reading_position", <<file_path, char_index>>)
    /\ config' = [config EXCEPT
                     !.last_position =
                         [file |-> file_path, char_index |-> char_index],
                     !.reading_history =
                         HistoryWith(@, file_path, char_index)]
    /\ DEFAULT_CONFIG' =
           IF "reading_history" \in aliased
           THEN [DEFAULT_CONFIG EXCEPT
                    !.reading_history = HistoryWith(@, file_path, char_index)]
           ELSE DEFAULT_CONFIG
    /\ aliased' = aliased \ {"last_position"}
    /\ config_file' = config'
    /\ UNCHANGED <<widget_vars, cache_vars>>

\* del history[file_path], in place, and save(), when the file has an entry
remove_reading_history(file_path) ==
    /\ Called("remove_reading_history", file_path)
    /\ IF config.reading_history[file_path] # NoEntry
       THEN /\ config' = [config EXCEPT
                             !.reading_history[file_path] = NoEntry]
            /\ DEFAULT_CONFIG' =
                   IF "reading_history" \in aliased
                   THEN [DEFAULT_CONFIG EXCEPT
                            !.reading_history[file_path] = NoEntry]
                   ELSE DEFAULT_CONFIG
            /\ config_file' = config'
       ELSE UNCHANGED <<config, DEFAULT_CONFIG, config_file>>
    /\ UNCHANGED aliased
    /\ UNCHANGED <<widget_vars, cache_vars>>

\* self.config = self.DEFAULT_CONFIG.copy(): a copy of the top level only
reset_to_default ==
    /\ Called("reset_to_default", <<>>)
    /\ config' = DEFAULT_CONFIG
    /\ aliased' = ConfigKeys
    /\ config_file' = config'
    /\ UNCHANGED DEFAULT_CONFIG
    /\ UNCHANGED <<widget_vars, cache_vars>>

\* the program is started again: the class attribute is as declared, and
\* __init__ loads config.json and merges it into the defaults
Restart ==
    /\ Called("__init__", <<>>)
    /\ DEFAULT_CONFIG' = DeclaredDefault
    /\ config' = _merge_config(DeclaredDefault, config_file)
    /\ aliased' = {}
    /\ UNCHANGED config_file
    /\ UNCHANGED <<widget_vars, cache_vars>>

InitConfig == Constructed({<<>>}) /\ width = 30

NextConfig ==
    \/ \E key_path \in KeyPaths : \E value \in KeyValues[key_path] :
          \E auto_save \in BOOLEAN : set(key_path, value, auto_save)
    \/ save
    \/ \E file_path \in Files : \E max_files \in MaxFilesInputs :
          add_recent_file(file_path, max_files)
    \/ \E file_path \in Files : \E char_index \in CharIndexes :
          save_reading_position(file_path, char_index)
    \/ \E file_path \in Files : remove_reading_history(file_path)
    \/ reset_to_default
    \/ Restart

SpecConfig == InitConfig /\ [][NextConfig]_vars

(***************************************************************************)
(* The parse cache on its own: calls of parse_file_cached while time       *)
(* passes and one of the files is rewritten.                               *)
(***************************************************************************)
\* parse_file_cached(file_path): the purge, then OSError for a file that is
\* not there (parse_file raises), a hit, or a parse that is stored
parse_file_cached(file_path) ==
    LET kept == Purged(_parse_cache, current_time)
    IN  /\ Called("parse_file_cached", <<file_path>>)
        /\ IF file_path \notin DOMAIN files
           THEN /\ _parse_cache' = kept
                /\ parse_calls' = <<file_path>>
                /\ returned' = <<"FileNotFoundError">>
           ELSE IF CacheHit(kept, file_path)
                THEN /\ _parse_cache' = kept
                     /\ parse_calls' = <<>>
                     /\ returned' = <<basename(file_path), kept[file_path][2]>>
                ELSE /\ _parse_cache' =
                            Stored(kept, file_path,
                                   <<getmtime(file_path),
                                     parse_file(file_path)[2]>>)
                     /\ parse_calls' = <<file_path>>
                     /\ returned' = parse_file(file_path)
        /\ UNCHANGED <<current_time, files>>
        /\ UNCHANGED <<widget_vars, config_vars>>

\* an hour passes
Tick ==
    /\ current_time < MaxTime
    /\ current_time' = current_time + CacheTTL
    /\ Called("sleep", <<CacheTTL>>)
    /\ UNCHANGED <<_parse_cache, files, parse_calls, returned>>
    /\ UNCHANGED <<widget_vars, config_vars>>

\* another program writes the file: its modification time is now
Modify ==
    /\ files' = [files EXCEPT ![ModifiedPath] = <<current_time, "new">>]
    /\ Called("write", <<ModifiedPath>>)
    /\ UNCHANGED <<_parse_cache, current_time, parse_calls, returned>>
    /\ UNCHANGED <<widget_vars, config_vars>>

InitCache == Constructed({<<>>}) /\ width = 30

NextCache ==
    \/ \E file_path \in Paths : parse_file_cached(file_path)
    \/ Tick
    \/ Modify

SpecCache == InitCache /\ [][NextCache]_vars

(***************************************************************************)
(* Properties.                                                             *)
(***************************************************************************)
Last(s) == s[Len(s)]
Clamp(x, lo, hi) == IF x < lo THEN lo ELSE IF x > hi THEN hi ELSE x
\* getCurrentCharIndex()
getCurrentCharIndex == current_pos
\* the progress value of the first signal emitted is 0.0
EmittedProgressZero ==
    /\ Len(emitted) >= 1
    /\ emitted[1][1] = "progress_changed"
    /\ emitted[1][2] = 0
\* pos + max(1, breakLength(currentTail(), availableWidth)) >= length, for
\* the tail and the width of this state
AtEndFrom(pos) ==
    pos + DisplayLength(Tail0(full_text, pos), AvailableWidth(width))
        >= Len(full_text)

(* C1: with a non-empty buffer, a nextLine call either moves the position   *)
(* strictly forward or signals reached-end and leaves it where it was; the  *)
(* moving calls made in a row after setText at one width number fewer than  *)
(* the length, so reached-end is signalled after at most `length` calls.    *)
C1_ForwardMonotonic ==
    full_text # <<>> =>
        /\ op = "nextLine" =>
            \/ current_pos > pre.pos
            \/ current_pos = pre.pos /\ emitted = <<reached_end>>
        /\ run # NoRun => run <= current_pos /\ run < Len(full_text)
C1_Witness ==
    op = "nextLine" /\ run = 2 /\ current_pos > pre.pos

(* C2: the position is 0 on an empty buffer and within [0, length) on a     *)
(* non-empty one, whatever calls were made.                                 *)
C2_PositionInRange ==
    IF full_text = <<>>
    THEN current_pos = 0
    ELSE 0 <= current_pos /\ current_pos < Len(full_text)
C2_Witness ==
    op = "lastLine" /\ current_pos > 0 /\ current_pos = Len(full_text) - 1

(* C3: after setText and n >= 1 nextLine calls in a row that each moved, at *)
(* one width, a prevLine call puts the position back to where it was before *)
(* the last nextLine call.                                                  *)
C3_RetreatUndoesAdvance ==
    [][(run >= 1 /\ op' = "prevLine") => current_pos' = pre.pos]_vars

(* C4: with a non-empty buffer, when position + k >= length for             *)
(* k = max(1, breakLength(currentTail(), availableWidth)) at the start of a *)
(* nextLine call, the call signals reached-end and leaves the position; it  *)
(* changes neither buffer nor width, so the next call finds the same.       *)
C4_EndIsNoOp ==
    (op = "nextLine" /\ full_text # <<>> /\ AtEndFrom(pre.pos)) =>
        /\ emitted = <<reached_end>>
        /\ current_pos = pre.pos
C4_Witness ==
    /\ op = "nextLine" /\ emitted = <<reached_end>>
    /\ current_pos > 0 /\ current_pos = pre.pos
    /\ pre.hist # <<>> /\ Last(pre.hist) = current_pos

(* C5: setPosition(x) leaves the position, which getCurrentCharIndex        *)
(* returns, at x clamped into [0, length - 1] (0 on an empty buffer), for x *)
(* negative, in range or beyond the length, and leaves the history empty.   *)
C5_SeekClamps ==
    op = "setPosition" =>
        /\ getCurrentCharIndex =
              IF Len(full_text) = 0 THEN 0
              ELSE Clamp(pre.arg, 0, Len(full_text) - 1)
        /\ position_history = <<>>
C5_Witness ==
    /\ op = "setPosition" /\ pre.arg < 0
    /\ pre.pos > 0 /\ pre.hist # <<>> /\ current_pos = 0

(* C6: setText, called in any state, stores the normalised text as the     *)
(* buffer, leaves position 0, an empty history and the cached length equal  *)
(* to the length of the buffer, and emits progress_changed with the value   *)
(* 0.0.                                                                     *)
C6_LoadResets ==
    op = "setText" =>
        /\ full_text = Normalize(pre.arg)
        /\ current_pos = 0
        /\ position_history = <<>>
        /\ text_length = Len(full_text)
        /\ EmittedProgressZero
C6_Witness ==
    op = "setText" /\ pre.pos > 0 /\ pre.hist # <<>> /\ full_text # <<>>

(* C7: the buffer setText stores is a fixed point of the normalisation:     *)
(* handing the buffer back to setText stores the same buffer.               *)
C7_NormalizeIdempotent ==
    op = "setText" => Normalize(full_text) = full_text
C7_Witness ==
    /\ op = "setText"
    /\ content = <<"Z", "\r", "\n", " ", "Z">>
    /\ full_text = <<"Z", " ", "Z">>

(* C8, as stated: on an empty buffer nextLine signals reached-end and       *)
(* prevLine signals reached-start, changing neither position nor history.   *)
C8_EmptySignals ==
    (full_text = <<>> /\ op \in {"nextLine", "prevLine"}) =>
        /\ emitted = IF op = "nextLine" THEN <<reached_end>>
                     ELSE <<reached_start>>
        /\ current_pos = pre.pos
        /\ position_history = pre.hist
(* C8, amended: on an empty buffer nextLine and prevLine change neither     *)
(* position nor history and emit no signal.                                 *)
C8_EmptyNoOp ==
    (full_text = <<>> /\ op \in {"nextLine", "prevLine"}) =>
        /\ emitted = <<>>
        /\ current_pos = pre.pos
        /\ position_history = pre.hist
C8_Witness ==
    full_text = <<>> /\ op = "prevLine" /\ emitted = <<>> /\ current_pos = 0

(* C9: with a non-empty buffer and position > 0, prevLine leaves a position *)
(* p' with 0 <= p' < the old position, on the history path and on the       *)
(* estimation path.                                                         *)
C9_RetreatStrictlyBack ==
    (op = "prevLine" /\ full_text # <<>> /\ pre.pos > 0) =>
        0 <= current_pos /\ current_pos < pre.pos
C9_Witness ==
    /\ op = "prevLine" /\ pre.hist = <<>> /\ last_width = 0
    /\ pre.pos >= 2 /\ current_pos < pre.pos

(* C10: resizeEvent empties the history and leaves position and buffer; a   *)
(* nextLine call that finds a width other than the one of the previous      *)
(* nextLine call drops the history before it pushes the position.           *)
C10_ResizeClearsHistory ==
    [][/\ op' = "resizeEvent" =>
            /\ position_history' = <<>>
            /\ current_pos' = current_pos
            /\ full_text' = full_text
            /\ text_length' = text_length
       /\ (op' = "nextLine" /\ full_text # <<>> /\ width # last_width) =>
            position_history' = <<current_pos>>]_vars
C10_Witness ==
    /\ op = "resizeEvent" /\ pre.hist # <<>>
    /\ current_pos > 0 /\ position_history = <<>>

\* the break length paintEvent computed, and the text it drew
DrawnLength == emitted[1][2]
DrawnText == emitted[1][3]
\* measure(text[:n])
Measure(text, n) == horizontalAdvance(Slice(text, 0, n))

(* C11, as stated: _get_display_line_length returns at least 1 for every    *)
(* non-empty text, also when the first character is wider than the          *)
(* available width.                                                         *)
C11_BreakLengthAtLeastOne ==
    op = "paintEvent" => DrawnLength >= 1
(* C11, amended: _get_display_line_length returns a length within           *)
(* 0..len(text), 0 exactly when the first character alone is wider than the *)
(* available width; the caller then uses 1: paintEvent draws one character. *)
C11_BreakLengthOrForced ==
    op = "paintEvent" =>
        /\ 0 <= DrawnLength /\ DrawnLength <= Len(PaintedText)
        /\ DrawnLength = 0 <=> Measure(PaintedText, 1) > AvailableWidth(width)
        /\ Len(DrawnText) >= 1
        /\ DrawnText = Slice(PaintedText, 0, Max(1, DrawnLength))
C11_Witness ==
    /\ op = "paintEvent" /\ full_text # <<>>
    /\ DrawnLength = 0 /\ Len(DrawnText) = 1

\* the opening and the closing double quotation mark of the quote extension
OpeningQuoteMarks == {"ldquo"}
ClosingQuoteMarks == {"rdquo"}
CountIn(t, S) == Cardinality({i \in 1..Len(t) : t[i] \in S})
\* the longest prefix that fits: the largest k with measure(text[:k]) <= aw
FittingPrefix(text, aw) ==
    CHOOSE k \in 0..Len(text) :
        /\ Measure(text, k) <= aw
        /\ \A j \in (k + 1)..Len(text) : Measure(text, j) > aw
\* the lengths just past a closing mark among the floor(0.5 * k) characters
\* after the prefix, that measure at most 1.15 * aw
PastClosingQuote(text, k, aw) ==
    {n \in (k + 1)..Min(Len(text), k + (k \div 2)) :
        /\ text[n] \in ClosingQuoteMarks
        /\ 100 * Measure(text, n) <= 115 * aw}
\* the break length the quote extension gives
QuoteExtended(text, k, aw) ==
    LET n == CHOOSE m \in PastClosingQuote(text, k, aw) :
                 \A o \in PastClosingQuote(text, k, aw) : m <= o
    IN  IF /\ n < Len(text)
           /\ text[n + 1] \in QuoteFollowMarks
           /\ 10 * Measure(text, n + 1) <= 11 * aw
        THEN n + 1
        ELSE n

(* C12: when the longest fitting prefix text[:k] has an opening double      *)
(* quotation mark without its closing mark, and the closing mark comes      *)
(* within the next floor(0.5 * k) characters and measures, with the text up *)
(* to it, at most 1.15 * availableWidth, the break length is just past the  *)
(* closing mark (one more for a clause punctuation mark right after it that *)
(* stays within 1.10 * availableWidth): the line is not cut in the quote.   *)
C12_QuoteExtension ==
    op = "paintEvent" =>
        LET text == PaintedText
            aw == AvailableWidth(width)
            k == FittingPrefix(text, aw)
        IN  (/\ k >= 1 /\ k < Len(text)
             /\ ~(/\ text[k + 1] \in SentenceEndMarks
                  /\ 10 * Measure(text, k + 1) <= 11 * aw)
             /\ CountIn(Slice(text, 0, k), OpeningQuoteMarks)
                    > CountIn(Slice(text, 0, k), ClosingQuoteMarks)
             /\ PastClosingQuote(text, k, aw) # {})
            => DrawnLength = QuoteExtended(text, k, aw)

(* C13: getProgress returns position / length, within [0, 1] in every       *)
(* state, 0 when the position is 0 or the buffer empty, and below 1 at      *)
(* every position; the progress a call emits is that value.                 *)
C13_ProgressBounds ==
    LET p == getProgress
    IN  /\ p[2] > 0 /\ 0 <= p[1] /\ p[1] <= p[2]
        /\ full_text # <<>> => p[1] * Len(full_text) = current_pos * p[2]
        /\ (current_pos = 0 \/ full_text = <<>>) => p[1] = 0
        /\ p[1] < p[2]
        /\ (emitted # <<>> /\ emitted[1][1] = "progress_changed") =>
                emitted[1][2] * p[2] = p[1] * emitted[1][3]
C13_Witness ==
    /\ op = "nextLine" /\ current_pos = 2 /\ getProgress = <<2, 3>>
    /\ emitted[1] = <<"progress_changed", 2, 3>>

(* C14: setProgress(f) on a non-empty buffer clamps f into [0, 1], leaves   *)
(* the position at min(floor(length * f), length - 1) and the history       *)
(* empty: at 0 for f = 0, at length - 1 for f = 1, and where it was for     *)
(* f = position / length; on an empty buffer it leaves position 0.          *)
C14_SeekToProgress ==
    op = "setProgress" =>
        LET f == IF pre.arg[1] < 0 THEN <<0, 1>>
                 ELSE IF pre.arg[1] > pre.arg[2] THEN <<1, 1>>
                 ELSE pre.arg
            length == Len(full_text)
        IN  IF length = 0
            THEN current_pos = 0 /\ position_history = <<>>
            ELSE /\ current_pos = Min((length * f[1]) \div f[2], length - 1)
                 /\ position_history = <<>>
                 /\ pre.arg[1] = 0 => current_pos = 0
                 /\ pre.arg[1] = pre.arg[2] => current_pos = length - 1
                 /\ pre.arg[1] * length = pre.pos * pre.arg[2] =>
                        current_pos = pre.pos
C14_Witness ==
    /\ op = "setProgress" /\ pre.arg = <<2, 3>> /\ pre.pos = 2
    /\ pre.hist # <<>> /\ current_pos = 2 /\ position_history = <<>>

(* C15, as stated: firstLine on a non-empty buffer leaves the state         *)
(* setPosition(0) leaves: position 0 and an empty history.                  *)
C15_FirstLineIsSeekZero ==
    (op = "firstLine" /\ full_text # <<>>) =>
        current_pos = 0 /\ position_history = <<>>
(* C15, amended: firstLine leaves position 0; called at another position it *)
(* empties the history and emits the progress 0, as setPosition(0) does;    *)
(* called at position 0 it does nothing: it emits no signal and keeps the   *)
(* history, which is then empty or [0].                                     *)
C15_FirstLineResets ==
    op = "firstLine" =>
        /\ current_pos = 0
        /\ IF pre.pos # 0
           THEN position_history = <<>> /\ EmittedProgressZero
           ELSE /\ position_history = pre.hist /\ emitted = <<>>
                /\ position_history \in {<<>>, <<0>>}
C15_Witness ==
    /\ op = "firstLine" /\ full_text # <<>>
    /\ pre.pos = 0 /\ position_history = <<0>> /\ emitted = <<>>

(* C16: lastLine on a non-empty buffer leaves a position from which         *)
(* position + max(1, breakLength(currentTail(), availableWidth)) >= length  *)
(* and an empty history; a nextLine call right after it signals reached-end *)
(* and leaves the position.                                                 *)
C16_LastLineLandsOnFinalSegment ==
    /\ [](op = "lastLine" /\ full_text # <<>> =>
            AtEndFrom(current_pos) /\ position_history = <<>>)
    /\ [][(op = "lastLine" /\ full_text # <<>> /\ op' = "nextLine") =>
            (emitted' = <<reached_end>> /\ current_pos' = current_pos)]_vars
C16_Witness ==
    /\ op = "lastLine" /\ full_text = <<"Z", "Z", "Z">>
    /\ pre.pos = 1 /\ pre.hist # <<>>
    /\ current_pos = 2 /\ position_history = <<>>

(* C17: with a non-empty buffer and position 0, prevLine signals            *)
(* reached-start and changes nothing nextLine reads: position, history,     *)
(* buffer, width and the width of the last nextLine call.                   *)
C17_RetreatAtStart ==
    [][(op' = "prevLine" /\ full_text # <<>> /\ current_pos = 0) =>
         /\ emitted' = <<reached_start>>
         /\ UNCHANGED <<full_text, text_length, current_pos,
                        position_history, last_width, width>>]_vars
C17_Witness ==
    /\ op = "prevLine" /\ full_text # <<>> /\ pre.pos = 0
    /\ pre.hist = <<0>> /\ position_history = <<0>>
    /\ emitted = <<reached_start>>

\* no position was saved for the file: it has no reading_history entry and
\* is not the file of last_position
NeverSaved(f) ==
    config.reading_history[f] = NoEntry /\ config.last_position.file # f

(* C18: right after save_reading_position(f, i), get_reading_position(f)    *)
(* returns i, and it returns what it returned before for every other file   *)
(* with an entry in the reading history; a file no position was saved for   *)
(* stays so under every call but a save for it, and get_reading_position    *)
(* returns 0 for it.                                                        *)
C18_ReadingPositionRoundTrip ==
    /\ [](\A f \in Files : NeverSaved(f) => get_reading_position(f) = 0)
    /\ [][/\ op' = "save_reading_position" =>
               /\ ReadingPositionIn(config', pre'.arg[1]) = pre'.arg[2]
               /\ \A g \in Files \ {pre'.arg[1]} :
                      config.reading_history[g] # NoEntry =>
                          ReadingPositionIn(config', g) = get_reading_position(g)
           /\ \A g \in Files :
                  (/\ NeverSaved(g)
                   /\ ~(op' = "save_reading_position" /\ pre'.arg[1] = g))
                  => NeverSaved(g)']_vars
C18_Witness ==
    /\ op = "save_reading_position" /\ pre.arg = <<"b.txt", 0>>
    /\ get_reading_position("a.txt") = 2
    /\ get_reading_position("b.txt") = 0
    /\ config.last_position.file = "b.txt"

(* C19: DEFAULT_CONFIG stays as the class declares it under set,            *)
(* add_recent_file and save_reading_position, and after reset_to_default    *)
(* get returns the declared default for every default key: font.size 16,    *)
(* window.x 100, recent_files [].                                           *)
C19_ResetRestoresDefaults ==
    /\ DEFAULT_CONFIG = DeclaredDefault
    /\ op = "reset_to_default" =>
           \A key_path \in KeyPaths \cup (ConfigKeys \ {"font", "window"}) :
               get(key_path) =
                   CASE key_path = "font.size" -> 16
                     [] key_path = "window.x" -> 100
                     [] key_path = "recent_files" -> <<>>
                     [] OTHER -> DeclaredDefault[key_path]

\* no path is twice in the list
NoDuplicates(list) ==
    \A i, j \in 1..Len(list) : list[i] = list[j] => i = j

(* C20: the list of recent files never holds a path twice; right after      *)
(* add_recent_file(path, max_files) it holds at most max_files entries and, *)
(* unless max_files is 0, the path added comes first.                       *)
C20_RecentFiles ==
    /\ NoDuplicates(get_recent_files)
    /\ op = "add_recent_file" =>
           /\ Len(get_recent_files) <= pre.arg[2]
           /\ pre.arg[2] >= 1 =>
                  get_recent_files # <<>> /\ get_recent_files[1] = pre.arg[1]
C20_Witness ==
    /\ op = "add_recent_file" /\ pre.arg = <<"a.txt", 2>>
    /\ get_recent_files = <<"a.txt", "b.txt">>
    /\ "recent_files" \notin aliased

\* the paths held by the cache
CachedPaths == DOMAIN _parse_cache

\* a call of parse_file_cached(file_path) made now returns the cached
\* content without invoking parse_file
ServedFromCache(file_path) ==
    CacheHit(Purged(_parse_cache, current_time), file_path)

\* the last call was parse_file_cached for a file that is there, and it
\* parsed the file and stored the result
JustParsed ==
    /\ op = "parse_file_cached"
    /\ pre.arg[1] \in DOMAIN files
    /\ parse_calls # <<>>

(* C21: a second call of parse_file_cached for the same path, made right   *)
(* after a call that parsed the file and stored it (no time has passed,    *)
(* the file has not been written), is served from the cache without        *)
(* invoking parse_file; and the cache never holds more than 10 entries.    *)
C21_SecondCallServedFromCache ==
    /\ Cardinality(CachedPaths) <= CacheMaxSize
    /\ JustParsed => ServedFromCache(pre.arg[1])

\* the last call was a prevLine that took the estimation path: there was a
\* text, the position was not 0 and the history held fewer than 2 entries
SlowPathTaken ==
    /\ op = "prevLine"
    /\ full_text # <<>>
    /\ pre.pos # 0
    /\ Len(pre.hist) < 2

\* the forced break length of the line that starts at pos
LineLengthAt(pos) ==
    DisplayLength(Tail0(full_text, pos), AvailableWidth(width))

C23_PunctuationTolerance ==
    op = "paintEvent" =>
        LET text == PaintedText
            aw == AvailableWidth(width)
            k == FittingPrefix(text, aw)
        IN  (/\ k >= 1 /\ k < Len(text)
             /\ text[k + 1] \in SentenceEndMarks
             /\ 10 * Measure(text, k + 1) > 11 * aw)
            => DrawnLength <= k

\* the backward search decides the break of text at the prefix length k:
\* the prefix is not the whole text, the character after it is no
\* sentence-ending mark within the tolerance, and the quote handling
\* returns k
BackwardSearchDecides(text, k, aw) ==
    /\ k >= 1 /\ k < Len(text)
    /\ ~(/\ text[k + 1] \in SentenceEndMarks
         /\ 10 * Measure(text, k + 1) <= 11 * aw)
    /\ _handle_quote_break(text, k, aw) = k

(* C24: when the backward search decides the break at the longest fitting  *)
(* prefix length k, the break length r satisfies floor(0.7 * k) < r <= k,  *)
(* so that measure(text[:r]) <= availableWidth.                             *)
C24_SearchStaysWithinPrefix ==
    op = "paintEvent" =>
        LET text == PaintedText
            aw == AvailableWidth(width)
            k == FittingPrefix(text, aw)
        IN  BackwardSearchDecides(text, k, aw) =>
                /\ (7 * k) \div 10 < DrawnLength
                /\ DrawnLength <= k
                /\ Measure(text, DrawnLength) <= aw

\* the classes of break-worthy characters, highest priority first
BreakClasses == <<SentenceEndMarks, PauseMarks, OtherMarks, {" "}>>
\* the characters the search looks at, counted from 1: text[search_start]
\* up to text[k]
SearchWindow(k) == ((7 * k) \div 10 + 1)..(k + 1)
\* where the characters of the class of priority c are in the window
Occurrences(text, k, c) ==
    {i \in SearchWindow(k) : text[i] \in BreakClasses[c]}
\* c is the highest priority of which the window has a character
HighestPresent(text, k, c) ==
    /\ Occurrences(text, k, c) # {}
    /\ \A h \in 1..(c - 1) : Occurrences(text, k, h) = {}
\* the largest element of a non-empty set of numbers
Largest(S) == CHOOSE m \in S : \A o \in S : o <= m

(* C25: when the backward search decides the break, the line ends right    *)
(* after the occurrence nearest to k of the highest-priority class that    *)
(* has a character in the search window, the order being sentence-ending   *)
(* marks, clause pauses, other punctuation, space; a character of a lower  *)
(* class nearer to k does not matter.                                      *)
C25_PriorityOrder ==
    op = "paintEvent" =>
        LET text == PaintedText
            aw == AvailableWidth(width)
            k == FittingPrefix(text, aw)
        IN  BackwardSearchDecides(text, k, aw) =>
                \A c \in 1..Len(BreakClasses) :
                    HighestPresent(text, k, c) =>
                        DrawnLength = Largest(Occurrences(text, k, c))
\* a line was broken after a character of the highest class present, with
\* a character of a lower class between it and the end of the prefix
C25_Witness ==
    /\ op = "paintEvent"
    /\ LET text == PaintedText
           aw == AvailableWidth(width)
           k == FittingPrefix(text, aw)
       IN  /\ BackwardSearchDecides(text, k, aw)
           /\ \E c \in 1..Len(BreakClasses) :
                  /\ HighestPresent(text, k, c)
                  /\ DrawnLength = Largest(Occurrences(text, k, c))
                  /\ \E l \in (c + 1)..Len(BreakClasses) :
                         \E j \in Occurrences(text, k, l) :
                             j > DrawnLength /\ j <= k

(* C26: the buffer stored by setText holds no CR and no LF, no two         *)
(* adjacent whitespace characters and no whitespace at its start or end;   *)
(* a raw text of nothing but whitespace and line terminators gives the     *)
(* empty buffer.                                                            *)
C26_BufferNormalized ==
    op = "setText" =>
        /\ \A i \in 1..Len(full_text) : full_text[i] \notin {"\r", "\n"}
        /\ \A i \in 1..(Len(full_text) - 1) :
               ~(full_text[i] \in Whitespace /\ full_text[i + 1] \in Whitespace)
        /\ full_text # <<>> =>
               /\ full_text[1] \notin Whitespace
               /\ full_text[Len(full_text)] \notin Whitespace
        /\ (\A i \in 1..Len(content) : content[i] \in Whitespace) =>
               full_text = <<>>
C26_Witness ==
    /\ op = "setText"
    /\ content = <<"\t", "Z", "\r", "\n", " ">>
    /\ full_text = <<"Z">>

\* the entries of a history, as a set
Entries(history) == {history[i] : i \in 1..Len(history)}
\* the last call was one the claim names as emptying the history: a load,
\* a seek, lastLine, a resize event or an estimating prevLine
EmptiesHistory ==
    \/ op \in {"setText", "setPosition", "setProgress", "resizeEvent"}
    \/ op = "lastLine" /\ full_text # <<>>
    \/ SlowPathTaken

(* C27: in every reachable state the position history is strictly          *)
(* increasing and none of its entries exceeds the current position; only   *)
(* nextLine adds an entry; and the history is empty right after setText,   *)
(* setPosition, setProgress, lastLine, a resize event and a prevLine that  *)
(* took the estimation path.                                                *)
C27_HistoryInvariants ==
    /\ [](/\ \A i \in 1..(Len(position_history) - 1) :
                position_history[i] < position_history[i + 1]
          /\ \A i \in 1..Len(position_history) :
                position_history[i] <= current_pos
          /\ EmptiesHistory => position_history = <<>>)
    /\ [][Entries(position_history') \subseteq Entries(position_history)
             \/ op' = "nextLine"]_vars
C27_Witness ==
    /\ op = "nextLine"
    /\ position_history = <<0, 1, 2>>
    /\ current_pos = 2

\* the display line that starts at pos ends where the line at next starts
NextLineStart(pos, next) == next = pos + LineLengthAt(pos)

(* C28: the position history never holds more than 100 entries; after n    *)
(* consecutive moving nextLine calls from the start of the text it holds   *)
(* exactly the min(n, 100) most recent positions the calls left, oldest    *)
(* first: the starts of the min(n, 100) display lines just before the      *)
(* current position, the first of them 0 as long as n <= 100.              *)
C28_HistoryCapacity ==
    /\ Len(position_history) <= MaxHistory
    /\ run > 0 =>
           /\ Len(position_history) = Min(run, MaxHistory)
           /\ run <= MaxHistory => position_history[1] = 0
           /\ \A i \in 1..(Len(position_history) - 1) :
                  NextLineStart(position_history[i], position_history[i + 1])
           /\ NextLineStart(Last(position_history), current_pos)
C28_Witness ==
    /\ run = MaxHistory + 1
    /\ Len(position_history) = MaxHistory
    /\ position_history[1] = 1
    /\ position_history[MaxHistory] = MaxHistory

(* C29: the line painted at position p is text[p : p + d] with             *)
(* d = max(1, breakLength(text[p:], w)), which lies within the buffer, and *)
(* nextLine moves from p to exactly p + d, or signals reached-end and      *)
(* stays when p + d >= length, where the painted line is text[p:]: the     *)
(* lines shown by reading forward neither overlap nor skip a character.    *)
C29_LinesCoverBuffer ==
    /\ []((op = "paintEvent" /\ full_text # <<>>) =>
            LET d == LineLengthAt(current_pos)
            IN  /\ DrawnText = Slice(full_text, current_pos, current_pos + d)
                /\ Len(DrawnText) = d
                /\ current_pos + d <= text_length)
    /\ [][(op' = "nextLine" /\ full_text # <<>>) =>
            LET d == LineLengthAt(current_pos)
            IN  IF current_pos + d >= text_length
                THEN /\ current_pos' = current_pos
                     /\ emitted' = <<reached_end>>
                     /\ current_pos + d = text_length
                ELSE current_pos' = current_pos + d]_vars
\* the second line of a text was painted after an advance over a first line
\* of more than one character, and it is not the last line
C29_Witness ==
    /\ op = "paintEvent"
    /\ run = 1
    /\ current_pos > 1
    /\ current_pos + Len(DrawnText) < text_length

(* C30: right after remove_reading_history(f), get_reading_position(f)     *)
(* returns 0, for every file f, the most recently read one included.       *)
C30_RemovedFileStartsOver ==
    op = "remove_reading_history" => get_reading_position(pre.arg) = 0

====
